---- MODULE Spec2Model ----
(***************************************************************************)
(* A model of mongodbcopy's replication engine, copyCollections            *)
(* (src/src/core/copyService.js).  One run connects two clients, resolves  *)
(* the collections to process and handles them one at a time: count,       *)
(* optional schema probe, dry-run short cut, then import, export or live   *)
(* copy (full replace or incremental upsert), optional index replication,  *)
(* and a result pushed on summary.  The finally block closes both clients. *)
(***************************************************************************)
EXTENDS Integers, Sequences, FiniteSets, TLC

\* ------------------------------------------------------------------ bounds
\* Document identities are 1..MaxId.
MaxId == 3
\* batchSize ranges over 1..MaxBatch.
MaxBatch == 2
\* A request names at most MaxRequest collections.
MaxRequest == 2
\* BATCH_SIZE and --batch-size are strings of at most MaxStr characters.
MaxStr == 2

Ids == 1..MaxId
\* `since = null`, and also the value of a document without the timestamp field.
Null == 0
\* The names the source lists, in listing order.
SrcListing == <<"a", "b">>
Names == {"a", "b"}
\* The names a request may hold: those of the source and one it does not list.
Requestable == Names \cup {"x"}

\* ------------------------------------------------------------- documents
\* A document: its _id, the value of timestampField (Null: no such field), a
\* payload version, whether it carries the probe's _validationTest marker, and
\* whether its timestamp is an ISO string (as after JSON.stringify) and no Date.
Doc(i, t, v) == [id |-> i, ts |-> t, v |-> v, test |-> FALSE, iso |-> FALSE]
\* Source document i: document 1 has no timestamp field, document i > 1 was
\* updated at time i - 1.
SrcDoc(i) == Doc(i, i - 1, "src")
\* What the target may hold before a run: an older version of document i.
OldDoc(i) == Doc(i, Null, "old")
\* What a data file may hold for identity i.
FileDoc(i) == [Doc(i, i - 1, "file") EXCEPT !.iso = (i - 1 # Null)]

\* The documents f(lo), ..., f(hi) in order.
Range(f(_), lo, hi) == [i \in 1..(IF hi >= lo THEN hi - lo + 1 ELSE 0) |-> f(lo + i - 1)]

SeqToSet(s) == {s[i] : i \in 1..Len(s)}
IdsOf(docs) == {d.id : d \in docs}
\* A collection's documents in natural order (here: by _id).
NaturalOrder(docs) ==
  LET In(i) == i \in IdsOf(docs)
      ids == SelectSeq([i \in 1..MaxId |-> i], In)
  IN  [k \in 1..Len(ids) |-> CHOOSE d \in docs : d.id = ids[k]]

\* --------------------------------------------------------------- indexes
\* Index definitions as col.indexes() returns them: name, key and the
\* internal fields v and ns besides the options.
IdIndex == [name |-> "_id_", key |-> "_id", unique |-> FALSE, v |-> TRUE, ns |-> TRUE]
SrcIndexes ==
  << IdIndex,
     [name |-> "email_1", key |-> "email", unique |-> TRUE, v |-> TRUE, ns |-> TRUE],
     [name |-> "ts_1", key |-> "ts", unique |-> FALSE, v |-> TRUE, ns |-> TRUE] >>
\* The definitions an index file found in outputDir holds: the same, in
\* another order.
FileIndexes == <<SrcIndexes[2], IdIndex, SrcIndexes[3]>>

\* ------------------------------------------------------------- the state
VARIABLES
  opt,           \* the options of the call (constant during a run)
  sourceDocs,    \* source database: collection name -> documents in natural order
  targetDocs,    \* target database: collection name -> set of documents
  targetIndexes, \* target database: collection name -> set of created index specs
  files,         \* outputDir: collection name -> data file
  indexFiles,    \* outputDir: collection name -> index file
  sourceClient,  \* [state, closes]
  targetClient,  \* [state, closes]
  progressBar,   \* [exists, active]: exists iff showProgress
  pc,            \* position in copyCollections
  collections,   \* the resolved sequence of names to process
  idx,           \* position of the for loop in collections
  total,         \* countDocuments(query) of the current collection
  json,          \* the parsed data file of the current collection (import)
  allDocs,       \* the documents read for the export of the current collection
  impI,          \* the import chunk loop's i
  cursor,        \* [open, rest]: col.find(query), opened by its first hasNext
  batch,         \* the incremental loop's batch array
  copied,        \* documents written so far for the current collection
  summary,       \* the results pushed so far
  error,         \* TRUE once an error propagates out of the try block
  settled,       \* "pending", "returned" or "rejected"
  ops,           \* operations issued against the target for the current collection
  batches,       \* batch writes issued for the current collection, in order
  barLog,        \* progress bar calls made for the current collection, in order
  target0,       \* targetDocs before the first run
  index0,        \* targetIndexes before the first run
  target1,       \* targetDocs after the first run
  runs,          \* 1 in the first run, 2 in the caller's second call
  cli,           \* the command line, the prompt's answer and the exit code
  fault          \* TRUE once the environment made an operation fail, or left
                 \* a write unacknowledged

envVars == <<sourceDocs, targetDocs, targetIndexes, files, indexFiles>>
connVars == <<sourceClient, targetClient>>
localVars == <<total, json, allDocs, impI, cursor, batch, copied>>
loopVars == <<collections, idx, localVars>>
logVars == <<ops, batches, barLog>>
histVars == <<target0, index0, target1, runs, cli>>
vars == <<opt, envVars, connVars, progressBar, pc, loopVars, summary, error,
          settled, logVars, histVars, fault>>

\* ---------------------------------------------------------- query builder
\* A variant whose query also matches the documents without the field.
MatchesKeepsMissing(d, incremental, since) ==
  IF incremental /\ since # Null THEN d.ts = Null \/ (~d.iso /\ d.ts >= since) ELSE TRUE

\* A variant whose query uses $gt.
MatchesAfter(d, incremental, since) ==
  IF incremental /\ since # Null THEN d.ts # Null /\ ~d.iso /\ d.ts > since ELSE TRUE

\* Whether document d matches the query built from incremental and since:
\* {} unless incremental && since, else {timestampField: {$gte: since}}.  A
\* document without the field, or with a string in it, never matches $gte.
Matches(d, incremental, since) ==
  IF incremental /\ since # Null THEN d.ts # Null /\ ~d.iso /\ d.ts >= since ELSE TRUE

\* sourceDb.collection(c): when sourceUri and targetUri name the same server
\* (and dbName is one), it is the very collection targetDb.collection(c) is.
Source(c) == IF opt.aliased THEN NaturalOrder(targetDocs[c]) ELSE sourceDocs[c]

\* col.find(query) over the source collection, in natural order.
Find(c) ==
  LET Test(d) == Matches(d, opt.incremental, opt.since)
  IN  SelectSeq(Source(c), Test)

\* col.countDocuments(query)
CountDocuments(c) == Len(Find(c))

\* The loop variable of `for (const name of collections)`.
name == collections[idx]

\* A variant with the two counts in each other's place.
ResultSwapped(n, c, t, s) == [name |-> n, copied |-> t, total |-> c, status |-> s]

\* One entry of summary.
Result(n, c, t, s) == [name |-> n, copied |-> c, total |-> t, status |-> s]

\* ------------------------------------------------- environment and argv
\* The characters of the strings of BATCH_SIZE and --batch-size.
Chars == {" ", "-", "0", "2", "x"}
Digit == [c \in {"0", "2"} |-> IF c = "0" THEN 0 ELSE 2]
Strings == UNION {[1..n -> Chars] : n \in 0..MaxStr}

\* A number of JavaScript, as far as the code tells numbers apart: NaN or an
\* integer.
NaN == [nan |-> TRUE, n |-> 0]
Num(n) == [nan |-> FALSE, n |-> n]
\* Number.isFinite(x) && x > 0
FinitePositive(x) == ~x.nan /\ x.n > 0

RECURSIVE TrimStart(_)
TrimStart(s) == IF s # <<>> /\ Head(s) = " " THEN TrimStart(Tail(s)) ELSE s
RECURSIVE TrimEnd(_)
TrimEnd(s) ==
  IF s # <<>> /\ s[Len(s)] = " " THEN TrimEnd(SubSeq(s, 1, Len(s) - 1)) ELSE s
\* String.prototype.trim
Trim(s) == TrimEnd(TrimStart(s))

\* The value of the digits s starts with, read after the value acc.
RECURSIVE DigitsValue(_, _)
DigitsValue(s, acc) ==
  IF s # <<>> /\ Head(s) \in DOMAIN Digit
  THEN DigitsValue(Tail(s), 10 * acc + Digit[Head(s)])
  ELSE acc

\* parseInt(s, 10): leading white space is skipped, then an optional sign and
\* the longest run of digits are read; NaN when there is no digit.
ParseInt(s) ==
  LET t == TrimStart(s)
      neg == t # <<>> /\ Head(t) = "-"
      d == IF neg THEN Tail(t) ELSE t
  IN  IF d = <<>> \/ Head(d) \notin DOMAIN Digit THEN NaN
      ELSE Num(IF neg THEN 0 - DigitsValue(d, 0) ELSE DigitsValue(d, 0))

\* An environment variable or an option's argument: unset, or a string.
Unset == [set |-> FALSE, s |-> <<>>]
Set(s) == [set |-> TRUE, s |-> s]

\* The fallback of BATCH_SIZE and of batchSize.
DefaultBatchSize == 1000

\* parseIntegerEnv(key, fallback) for the raw value of the variable
ParseIntegerEnv(raw, fallback) ==
  IF ~raw.set THEN fallback
  ELSE LET n == ParseInt(Trim(raw.s))
       IN  IF FinitePositive(n) THEN n.n ELSE fallback

\* A variant that takes any finite --batch-size.
CliBatchSizeAnyFinite(arg, envRaw) ==
  LET a == IF arg.set THEN ParseInt(arg.s) ELSE NaN
  IN  IF ~a.nan THEN a.n ELSE ParseIntegerEnv(envRaw, DefaultBatchSize)

\* Number.isFinite(opts.batchSize) && opts.batchSize > 0
\*   ? opts.batchSize : env.BATCH_SIZE || 1000
\* where opts.batchSize is parseInt(v, 10) of the option's argument, or
\* undefined without the option.
CliBatchSize(arg, envRaw) ==
  LET a == IF arg.set THEN ParseInt(arg.s) ELSE NaN
      e == ParseIntegerEnv(envRaw, DefaultBatchSize)
  IN  IF FinitePositive(a) THEN a.n
      ELSE IF e # 0 THEN e ELSE DefaultBatchSize

\* The command lines: --all, --collections, --dry-run, --yes, --export-json,
\* --import-json, --copy-indexes and --validate-schema in every combination
\* with BATCH_SIZE and --batch-size unset; every string for the two in
\* `--all --dry-run --yes`.  --no-progress, --incremental and --since are not given.
CommandLines ==
  { a \in [all : BOOLEAN, collections : {<<>>, <<"a">>}, dryRun : BOOLEAN,
           yes : BOOLEAN, exportJson : BOOLEAN, importJson : BOOLEAN,
           copyIndexes : BOOLEAN, validateSchema : BOOLEAN,
           batchSize : {Unset} \cup {Set(s) : s \in Strings},
           envBatchSize : {Unset} \cup {Set(s) : s \in Strings}] :
      (a.batchSize # Unset \/ a.envBatchSize # Unset) =>
        /\ a.all /\ a.dryRun /\ a.yes /\ a.collections = <<>>
        /\ ~a.exportJson /\ ~a.importJson
        /\ ~a.copyIndexes /\ ~a.validateSchema }

\* The state of the command line interface: whether the run was started from
\* it (else copyCollections is called directly), its arguments, the answer to
\* the prompt and the exit.
Cli(on, argv) ==
  [on |-> on, argv |-> argv, answer |-> "none", exited |-> FALSE, code |-> 0]
NoArgv ==
  [all |-> FALSE, collections |-> <<>>, dryRun |-> FALSE, yes |-> FALSE,
   exportJson |-> FALSE, importJson |-> FALSE, copyIndexes |-> FALSE,
   validateSchema |-> FALSE, batchSize |-> Unset, envBatchSize |-> Unset]

\* The options the command line interface calls copyCollections with.
CliOptions(a) ==
  [collections |-> IF a.all THEN <<>> ELSE a.collections,
   dryRun |-> a.dryRun,
   batchSize |-> CliBatchSize(a.batchSize, a.envBatchSize),
   exportJson |-> a.exportJson,
   importJson |-> a.importJson,
   showProgress |-> TRUE,
   copyIndexes |-> a.copyIndexes,
   validateSchema |-> a.validateSchema,
   incremental |-> FALSE,
   since |-> Null,
   aliased |-> FALSE]

\* ------------------------------------------------------------------ Init
\* A data file: absent, not parseable, or an array.
NoFile == [kind |-> "missing", docs |-> <<>>]
BadFile == [kind |-> "bad", docs |-> <<>>]
OkFile(docs) == [kind |-> "ok", docs |-> docs]

\* The requests: no name, or 1..MaxRequest names in any order, with
\* repetitions and with names the source does not list.
Requests == UNION {[1..n -> Requestable] : n \in 0..MaxRequest}

\* The calls: every combination of the flags, since only with incremental,
\* every batchSize; aliased says that sourceUri and targetUri (with dbName)
\* name one database.  Names are requested in dry runs, plain full copies and
\* plain imports.
InitOptions ==
  { o \in [dryRun : BOOLEAN, exportJson : BOOLEAN, importJson : BOOLEAN,
           incremental : BOOLEAN, validateSchema : BOOLEAN, copyIndexes : BOOLEAN,
           showProgress : BOOLEAN, since : {Null} \cup (1..(MaxId - 1)),
           batchSize : 1..MaxBatch, collections : Requests, aliased : BOOLEAN] :
      /\ o.since # Null => o.incremental
      /\ o.collections # <<>> =>
           /\ ~o.exportJson /\ ~o.incremental
           /\ ~o.validateSchema /\ ~o.copyIndexes /\ ~o.showProgress
           /\ o.batchSize = MaxBatch /\ ~o.aliased }

\* The data files an import may find.
InitFiles(o) ==
  IF o.importJson /\ ~o.dryRun
  THEN {NoFile, BadFile} \cup {OkFile(Range(FileDoc, 1, m)) : m \in {0, MaxId - 1, MaxId}}
  ELSE {NoFile}

\* The source collection "a" holds documents 1..k and "b" holds 1..MaxId-k;
\* the target holds old versions of documents j..MaxId in both: of all of
\* them, of the last one, or of none.  When source and target are one
\* database, the target's collections are the source's.  copyCollections is
\* called directly with any options, or the command line interface is
\* started (over one of the databases) and will call it.
Init ==
  /\ \/ cli = Cli(FALSE, NoArgv) /\ opt \in InitOptions
     \/ \E a \in CommandLines : cli = Cli(TRUE, a) /\ opt = CliOptions(a)
  /\ \E k \in IF cli.on THEN {MaxId - 1} ELSE 0..MaxId :
       sourceDocs = [c \in Names |->
                       IF c = "a" THEN Range(SrcDoc, 1, k)
                       ELSE Range(SrcDoc, 1, MaxId - k)]
  /\ \E j \in IF cli.on THEN {1} ELSE {1, MaxId, MaxId + 1} :
       targetDocs = [c \in Names |->
                       IF opt.aliased THEN SeqToSet(sourceDocs[c])
                       ELSE SeqToSet(Range(OldDoc, j, MaxId))]
  /\ targetIndexes = [c \in Names |-> {}]
  /\ \E f \in InitFiles(opt) :
       /\ files = [c \in Names |-> f]
       /\ indexFiles = [c \in Names |->
                          IF f.kind = "ok" THEN OkFile(FileIndexes) ELSE NoFile]
  /\ sourceClient = [state |-> "new", closes |-> 0]
  /\ targetClient = [state |-> "new", closes |-> 0]
  /\ progressBar = [exists |-> FALSE, active |-> FALSE]
  /\ pc = IF cli.on THEN "cliValidate" ELSE "connectSource"
  /\ collections = opt.collections
  /\ idx = 1
  /\ total = 0
  /\ json = <<>>
  /\ allDocs = <<>>
  /\ impI = 0
  /\ cursor = [open |-> FALSE, rest |-> <<>>]
  /\ batch = <<>>
  /\ copied = 0
  /\ summary = <<>>
  /\ error = FALSE
  /\ settled = "pending"
  /\ ops = <<>>
  /\ batches = <<>>
  /\ barLog = <<>>
  /\ target0 = targetDocs
  /\ index0 = targetIndexes
  /\ target1 = targetDocs
  /\ runs = 1
  /\ fault = FALSE

\* ------------------------------------------------------------ connecting
\* A variant for a function declared without `async`.
SyncThrow == "threw"

\* How an error raised before the try block reaches the caller: the function
\* is async, so the promise it returned rejects.
AsyncThrow == "rejected"

\* new MongoClient(sourceUri), await sourceClient.connect(): before the try
\* block; a failure of either rejects.
ConnectSource ==
  /\ pc = "connectSource"
  /\ \/ /\ sourceClient' = [sourceClient EXCEPT !.state = "open"]
        /\ pc' = "connectTarget"
        /\ UNCHANGED <<settled, fault>>
     \/ /\ sourceClient' = [sourceClient EXCEPT !.state = "failed"]
        /\ pc' = "settled"
        /\ settled' = AsyncThrow
        /\ fault' = TRUE
  /\ UNCHANGED <<opt, envVars, targetClient, progressBar, loopVars, summary,
                 error, logVars, histVars>>

\* await targetClient.connect(), before the try block; then the progress bar
\* is constructed when showProgress.
ConnectTarget ==
  /\ pc = "connectTarget"
  /\ \/ /\ targetClient' = [targetClient EXCEPT !.state = "open"]
        /\ progressBar' = [exists |-> opt.showProgress, active |-> FALSE]
        /\ pc' = "list"
        /\ UNCHANGED <<settled, fault>>
     \/ /\ targetClient' = [targetClient EXCEPT !.state = "failed"]
        /\ pc' = "settled"
        /\ settled' = AsyncThrow
        /\ fault' = TRUE
        /\ UNCHANGED progressBar
  /\ UNCHANGED <<opt, envVars, sourceClient, loopVars, summary, error, logVars,
                 histVars>>

\* ------------------------------------------------------- the try block
\* An error that no catch inside the try block handles: control goes to the
\* finally block and the promise will reject.
Throw ==
  /\ pc' = "finally"
  /\ error' = TRUE

\* A variant that walks the source's listing and keeps the requested names.
ResolveByListing(requested) ==
  LET Wanted(c) == c \in SeqToSet(requested)
  IN  IF Len(requested) = 0 THEN SrcListing ELSE SelectSeq(SrcListing, Wanted)

\* listCollections, then the requested names that exist on the source (all
\* names when none is requested).
Resolve(requested) ==
  LET allNames == SrcListing
      Includes(c) == c \in SeqToSet(allNames)
  IN  IF Len(requested) = 0 THEN allNames ELSE SelectSeq(requested, Includes)

ListCollections ==
  /\ pc = "list"
  /\ collections' = Resolve(collections)
  /\ pc' = "loop"
  /\ UNCHANGED <<opt, envVars, connVars, progressBar, idx, localVars, summary,
                 error, settled, logVars, histVars, fault>>

\* The for loop takes the next name: the locals of the body start afresh.
LoopNext ==
  /\ pc = "loop"
  /\ idx <= Len(collections)
  /\ pc' = "count"
  /\ total' = 0
  /\ json' = <<>>
  /\ allDocs' = <<>>
  /\ impI' = 0
  /\ cursor' = [open |-> FALSE, rest |-> <<>>]
  /\ batch' = <<>>
  /\ copied' = 0
  /\ ops' = <<>>
  /\ batches' = <<>>
  /\ barLog' = <<>>
  /\ UNCHANGED <<opt, envVars, connVars, progressBar, collections, idx, summary,
                 error, settled, histVars, fault>>

\* The for loop is over: return summary.
LoopEnd ==
  /\ pc = "loop"
  /\ idx > Len(collections)
  /\ pc' = "finally"
  /\ UNCHANGED <<opt, envVars, connVars, progressBar, loopVars, summary, error,
                 settled, logVars, histVars, fault>>

\* A variant that drops the result of a collection without documents.
PushUnlessEmpty(r) ==
  /\ summary' = IF r.total = 0 THEN summary ELSE Append(summary, r)
  /\ idx' = idx + 1
  /\ pc' = "loop"

\* summary.push(r); continue
PushAndContinue(r) ==
  /\ summary' = Append(summary, r)
  /\ idx' = idx + 1
  /\ pc' = "loop"

\* A variant that ignores incremental.
EmptyStatusAlways == "empty"

\* The status of a collection without matching documents.
EmptyStatus == IF opt.incremental THEN "no-new-docs" ELSE "empty"

\* A variant whose probe does not look at exportJson.
AfterCountProbesExport ==
  IF opt.validateSchema /\ ~opt.dryRun THEN "probe" ELSE "dryRun"

\* A variant whose probe is left out of imports as well.
AfterCountNoProbeOnImport ==
  IF opt.validateSchema /\ ~opt.dryRun /\ ~opt.exportJson /\ ~opt.importJson
  THEN "probe" ELSE "dryRun"

\* A variant whose probe does not look at dryRun.
AfterCountProbesDryRun ==
  IF opt.validateSchema /\ ~opt.exportJson THEN "probe" ELSE "dryRun"

\* Where control goes after the count when total is not 0.
AfterCount ==
  IF opt.validateSchema /\ ~opt.dryRun /\ ~opt.exportJson THEN "probe" ELSE "dryRun"

\* A variant whose import goes on without a source document.
EmptyUnlessImport(t) == t = 0 /\ ~opt.importJson

\* total === 0
Empty(t) == t = 0

\* const total = await col.countDocuments(query); if (total === 0) ...
Count ==
  /\ pc = "count"
  /\ total' = CountDocuments(name)
  /\ IF Empty(total')
     THEN PushAndContinue(Result(name, 0, total', EmptyStatus))
     ELSE pc' = AfterCount /\ UNCHANGED <<summary, idx>>
  /\ UNCHANGED <<opt, envVars, connVars, progressBar, collections, json, allDocs,
                 impI, cursor, batch, copied, error, settled, logVars, histVars,
                 fault>>

\* ------------------------------------------------------ target writes
\* destCol.insertMany(docs, {ordered: false}): every document is attempted in
\* order; one whose _id is already present, or that the target rejects (rej),
\* is not inserted and counts as a write error.
RECURSIVE InsertMany(_, _, _)
InsertMany(T, docs, rej) ==
  IF docs = <<>> THEN [docs |-> T, errors |-> 0]
  ELSE LET d == Head(docs)
           ok == d.id \notin IdsOf(T) /\ d \notin rej
           r == InsertMany(IF ok THEN T \cup {d} ELSE T, Tail(docs), rej)
       IN  [docs |-> r.docs, errors |-> r.errors + (IF ok THEN 0 ELSE 1)]

\* A variant whose replaceOne removes the matched document and inserts the
\* replacement only when nothing matched.
RECURSIVE BulkUpsertRemoves(_, _, _)
BulkUpsertRemoves(T, docs, rej) ==
  IF docs = <<>> THEN [docs |-> T, errors |-> 0]
  ELSE LET d == Head(docs)
           T2 == IF d.id \in IdsOf(T) THEN {x \in T : x.id # d.id} ELSE T \cup {d}
       IN  BulkUpsertRemoves(T2, Tail(docs), rej)

\* destCol.bulkWrite of one replaceOne {filter: {_id}, replacement, upsert: true}
\* per document, unordered: the document replaces the one with its _id, or is
\* inserted; one the target rejects (rej) counts as a write error.
RECURSIVE BulkUpsert(_, _, _)
BulkUpsert(T, docs, rej) ==
  IF docs = <<>> THEN [docs |-> T, errors |-> 0]
  ELSE LET d == Head(docs)
           ok == d \notin rej
           T2 == IF ok THEN {x \in T : x.id # d.id} \cup {d} ELSE T
           r == BulkUpsert(T2, Tail(docs), rej)
       IN  [docs |-> r.docs, errors |-> r.errors + (IF ok THEN 0 ELSE 1)]

\* What the environment may reject of one batch write: nothing, or the first
\* document of the batch.
RejectChoices(docs) == {{}, {docs[1]}}

\* One entry of ops.
Op(o, n, i) == [op |-> o, n |-> n, index |-> i]

\* --------------------------------------------------------- progress bar
BarCall(c, n) == [call |-> c, n |-> n]
\* A variant that reports the count as it was before the batch.
LoggedStale(c, n) ==
  IF progressBar.exists THEN Append(barLog, BarCall(c, copied)) ELSE barLog

\* barLog after `if (progressBar) progressBar.<c>(n)`.
Logged(c, n) == IF progressBar.exists THEN Append(barLog, BarCall(c, n)) ELSE barLog
\* A variant that forgets the stop.
BarStopForgets == UNCHANGED <<progressBar, barLog>>

\* if (progressBar) progressBar.stop()
BarStop ==
  /\ progressBar' = [progressBar EXCEPT !.active = FALSE]
  /\ barLog' = Logged("stop", 0)

\* --------------------------------------------------------- schema probe
\* const sampleDoc = await col.findOne(query)
FindOne(c) == Head(Find(c))
Tagged(d) == [d EXCEPT !.test = TRUE]

\* A variant whose probe only warns: the transfer goes on.
ProbeFailedProceeds ==
  /\ pc' = "dryRun"
  /\ UNCHANGED <<summary, idx>>

\* The catch of the probe: the collection is recorded as failed and skipped.
ProbeFailed ==
  PushAndContinue(Result(name, 0, total, "schema-validation-failed"))

\* destCol.insertOne({...sampleDoc, _validationTest: true}): the copy keeps the
\* sample's _id, so the insert fails when the target holds that _id already.
\* `if (validationResult.acknowledged)` guards the delete: a target whose
\* write concern leaves the insert unacknowledged reports no error, and the
\* transfer goes on without the delete.  `if (sampleDoc)`: without a sample
\* nothing is probed.
ProbeInsert ==
  /\ pc = "probe"
  /\ IF Find(name) = <<>>
     THEN /\ pc' = "dryRun"
          /\ UNCHANGED <<ops, targetDocs, summary, idx, fault>>
     ELSE LET doc == Tagged(FindOne(name))
          IN  /\ ops' = Append(ops, Op("insertOne", 1, ""))
              /\ \/ /\ doc.id \notin IdsOf(targetDocs[name])
                    /\ targetDocs' = [targetDocs EXCEPT ![name] = @ \cup {doc}]
                    /\ pc' = "probeDelete"
                    /\ UNCHANGED <<summary, idx, fault>>
                 \/ /\ targetDocs' = [targetDocs EXCEPT ![name] =
                                        IF doc.id \in IdsOf(@) THEN @ ELSE @ \cup {doc}]
                    /\ pc' = "dryRun"
                    /\ fault' = TRUE
                    /\ UNCHANGED <<summary, idx>>
                 \/ /\ doc.id \in IdsOf(targetDocs[name])
                    /\ ProbeFailed
                    /\ UNCHANGED <<targetDocs, fault>>
                 \/ /\ doc.id \notin IdsOf(targetDocs[name])
                    /\ ProbeFailed
                    /\ fault' = TRUE
                    /\ UNCHANGED targetDocs
  /\ UNCHANGED <<opt, sourceDocs, targetIndexes, files, indexFiles, connVars,
                 progressBar, collections, localVars, error, settled, batches,
                 barLog, histVars>>

\* await destCol.deleteOne({_id: validationResult.insertedId})
ProbeDelete ==
  /\ pc = "probeDelete"
  /\ ops' = Append(ops, Op("deleteOne", 1, ""))
  /\ \/ /\ targetDocs' = [targetDocs EXCEPT
                            ![name] = {x \in @ : x.id # FindOne(name).id}]
        /\ pc' = "dryRun"
        /\ UNCHANGED <<summary, idx, fault>>
     \/ /\ ProbeFailed
        /\ fault' = TRUE
        /\ UNCHANGED targetDocs
  /\ UNCHANGED <<opt, sourceDocs, targetIndexes, files, indexFiles, connVars,
                 progressBar, collections, localVars, error, settled, batches,
                 barLog, histVars>>

\* ---------------------------------------------------- dry run / dispatch
\* if (dryRun) { summary.push({... status: "dry-run"}); continue; }
DryRun ==
  /\ pc = "dryRun"
  /\ opt.dryRun
  /\ PushAndContinue(Result(name, 0, total, "dry-run"))
  /\ UNCHANGED <<opt, envVars, connVars, progressBar, collections, localVars,
                 error, settled, logVars, histVars, fault>>

\* A variant whose live copy always replaces.
DispatchAlwaysReplaces ==
  IF opt.importJson THEN "import"
  ELSE IF opt.exportJson THEN "export"
  ELSE "deleteMany"

\* A variant whose live copy creates the indexes in place of the documents.
DispatchIndexesFirst ==
  IF opt.importJson THEN "import"
  ELSE IF opt.exportJson THEN "export"
  ELSE IF opt.copyIndexes THEN "liveIndexes"
  ELSE IF opt.incremental THEN "incLoop" ELSE "deleteMany"

\* A variant that looks at incremental before exportJson: an incremental
\* export copies.
DispatchExportLast ==
  IF opt.importJson THEN "import"
  ELSE IF opt.incremental THEN "incLoop"
  ELSE IF opt.exportJson THEN "export" ELSE "deleteMany"

\* Where the body continues when it is no dry run.
Dispatch ==
  IF opt.importJson THEN "import"
  ELSE IF opt.exportJson THEN "export"
  ELSE IF opt.incremental THEN "incLoop" ELSE "deleteMany"

\* A variant that never starts the bar.
StartTransferSilent ==
  /\ pc = "dryRun"
  /\ ~opt.dryRun
  /\ pc' = Dispatch
  /\ UNCHANGED <<opt, envVars, connVars, progressBar, loopVars, summary, error,
                 settled, logVars, histVars, fault>>

\* if (progressBar && total > 0) progressBar.start(total, 0, ...); then the
\* import, export or live branch is entered.
StartTransfer ==
  /\ pc = "dryRun"
  /\ ~opt.dryRun
  /\ IF progressBar.exists /\ total > 0
     THEN /\ progressBar' = [progressBar EXCEPT !.active = TRUE]
          /\ barLog' = Append(barLog, BarCall("start", total))
     ELSE UNCHANGED <<progressBar, barLog>>
  /\ pc' = Dispatch
  /\ UNCHANGED <<opt, envVars, connVars, loopVars, summary, error, settled, ops,
                 batches, histVars, fault>>

\* -------------------------------------------------------------- indexes
\* A variant that passes the definition on as it was read.
IndexSpecKeepsInternal(index) == index

\* createIndex(key, {...options, name}) with v and ns deleted from options.
IndexSpec(index) == [name |-> index.name, key |-> index.key, unique |-> index.unique]

\* A variant without the filter.
IndexesToCreateAll(indexes) == indexes

\* indexes.filter(idx => idx.name !== "_id_")
IndexesToCreate(indexes) ==
  LET NotId(i) == i.name # "_id_" IN SelectSeq(indexes, NotId)

\* The createIndex calls copyIndexesToTarget issues, in order.
IndexOps(indexes) ==
  LET todo == IndexesToCreate(indexes)
  IN  [k \in 1..Len(todo) |-> Op("createIndex", 0, todo[k].name)]

\* A variant without the try/catch inside the loop: the first createIndex
\* that throws ends the loop.
CopyIndexesStopsAtFailure(had, indexes, failing) ==
  LET todo == IndexesToCreate(indexes)
      bad == {k \in 1..Len(todo) : todo[k].name \in failing}
      stop == IF bad = {} THEN Len(todo) ELSE CHOOSE k \in bad : \A j \in bad : k <= j
  IN  [indexes |-> had \cup {IndexSpec(todo[k]) : k \in {j \in 1..stop : j \notin bad}},
       calls |-> SubSeq(IndexOps(indexes), 1, stop)]

\* copyIndexesToTarget when the createIndex calls for the names in failing
\* throw (each is caught and logged): the target's indexes afterwards and the
\* createIndex calls made.
CopyIndexesToTarget(had, indexes, failing) ==
  [indexes |-> had \cup {IndexSpec(i) : i \in {x \in SeqToSet(IndexesToCreate(indexes)) :
                                                   x.name \notin failing}},
   calls |-> IndexOps(indexes)]

\* Which createIndex calls the environment lets fail: none, or the first.
IndexFailChoices(indexes) ==
  LET todo == IndexesToCreate(indexes)
  IN  {{}} \cup (IF todo = <<>> THEN {} ELSE {{todo[1].name}})

\* ------------------------------------------------------------ live copy
\* Where a live copy continues after its documents.
AfterLive == IF opt.copyIndexes THEN "liveIndexes" ELSE "liveDone"

\* The cursor's remaining documents: the query runs at the first hasNext.
Remaining == IF cursor.open THEN cursor.rest ELSE Find(name)

\* await destCol.deleteMany({}) of the full copy
DeleteMany ==
  /\ pc = "deleteMany"
  /\ ops' = Append(ops, Op("deleteMany", 0, ""))
  /\ targetDocs' = [targetDocs EXCEPT ![name] = {}]
  /\ pc' = "fullLoop"
  /\ UNCHANGED <<opt, sourceDocs, targetIndexes, files, indexFiles, connVars,
                 progressBar, loopVars, summary, error, settled, batches, barLog,
                 histVars, fault>>

\* A variant whose inner loop runs while i <= batchSize.
TakeBatchOffByOne(docs, batchSize) ==
  SubSeq(docs, 1, IF Len(docs) < batchSize + 1 THEN Len(docs) ELSE batchSize + 1)

\* for (let i = 0; i < batchSize && (await cursor.hasNext()); i++) batch.push(...)
TakeBatch(docs, batchSize) ==
  SubSeq(docs, 1, IF Len(docs) < batchSize THEN Len(docs) ELSE batchSize)

\* One iteration of `while (await cursor.hasNext())` of the full copy.
FullLoop ==
  /\ pc = "fullLoop"
  /\ \/ /\ Remaining = <<>>
        /\ pc' = AfterLive
        /\ cursor' = [open |-> TRUE, rest |-> <<>>]
        /\ UNCHANGED <<targetDocs, copied, error, ops, batches, barLog, fault>>
     \/ /\ Remaining # <<>>
        /\ LET b == TakeBatch(Remaining, opt.batchSize)
           IN  \E rej \in RejectChoices(b) :
                 LET r == InsertMany(targetDocs[name], b, rej)
                 IN  /\ cursor' = [open |-> TRUE,
                                   rest |-> SubSeq(Remaining, Len(b) + 1, Len(Remaining))]
                     /\ targetDocs' = [targetDocs EXCEPT ![name] = r.docs]
                     /\ ops' = Append(ops, Op("insertMany", Len(b), ""))
                     /\ batches' = Append(batches, b)
                     /\ fault' = (fault \/ rej # {})
                     /\ IF r.errors = 0
                        THEN /\ copied' = copied + Len(b)
                             /\ barLog' = Logged("update", copied')
                             /\ UNCHANGED <<pc, error>>
                        ELSE /\ Throw
                             /\ UNCHANGED <<copied, barLog>>
     \/ /\ Throw
        /\ fault' = TRUE
        /\ UNCHANGED <<targetDocs, cursor, copied, ops, batches, barLog>>
  /\ UNCHANGED <<opt, sourceDocs, targetIndexes, files, indexFiles, connVars,
                 progressBar, collections, idx, total, json, allDocs, impI, batch,
                 summary, settled, histVars>>

\* The incremental loop up to its next flush: documents are pushed on batch
\* until batch.length >= batchSize or the cursor is exhausted.
RECURSIVE Fill(_, _, _)
Fill(b, docs, batchSize) ==
  IF docs = <<>> THEN [batch |-> b, rest |-> docs]
  ELSE LET b2 == Append(b, Head(docs))
       IN  IF Len(b2) >= batchSize THEN [batch |-> b2, rest |-> Tail(docs)]
           ELSE Fill(b2, Tail(docs), batchSize)

\* `while (await cursor.hasNext())` of the incremental copy, to the next
\* bulkWrite inside the loop or to the loop's end.
IncLoop ==
  /\ pc = "incLoop"
  /\ LET f == Fill(batch, Remaining, opt.batchSize)
     IN  \/ /\ Len(f.batch) < opt.batchSize
            /\ batch' = f.batch
            /\ cursor' = [open |-> TRUE, rest |-> f.rest]
            /\ pc' = "incRemainder"
            /\ UNCHANGED <<targetDocs, copied, error, ops, batches, barLog, fault>>
         \/ /\ Len(f.batch) >= opt.batchSize
            /\ \E rej \in RejectChoices(f.batch) :
                 LET r == BulkUpsert(targetDocs[name], f.batch, rej)
                 IN  /\ cursor' = [open |-> TRUE, rest |-> f.rest]
                     /\ targetDocs' = [targetDocs EXCEPT ![name] = r.docs]
                     /\ ops' = Append(ops, Op("bulkWrite", Len(f.batch), ""))
                     /\ batches' = Append(batches, f.batch)
                     /\ fault' = (fault \/ rej # {})
                     /\ IF r.errors = 0
                        THEN /\ copied' = copied + Len(f.batch)
                             /\ barLog' = Logged("update", copied')
                             /\ batch' = <<>>
                             /\ UNCHANGED <<pc, error>>
                        ELSE /\ Throw
                             /\ batch' = f.batch
                             /\ UNCHANGED <<copied, barLog>>
         \/ /\ Throw
            /\ fault' = TRUE
            /\ UNCHANGED <<targetDocs, cursor, batch, copied, ops, batches, barLog>>
  /\ UNCHANGED <<opt, sourceDocs, targetIndexes, files, indexFiles, connVars,
                 progressBar, collections, idx, total, json, allDocs, impI,
                 summary, settled, histVars>>

\* if (batch.length > 0) { bulkWrite; copied += batch.length; ... }
IncRemainder ==
  /\ pc = "incRemainder"
  /\ IF Len(batch) > 0
     THEN \E rej \in RejectChoices(batch) :
            LET r == BulkUpsert(targetDocs[name], batch, rej)
            IN  /\ targetDocs' = [targetDocs EXCEPT ![name] = r.docs]
                /\ ops' = Append(ops, Op("bulkWrite", Len(batch), ""))
                /\ batches' = Append(batches, batch)
                /\ fault' = (fault \/ rej # {})
                /\ IF r.errors = 0
                   THEN /\ copied' = copied + Len(batch)
                        /\ barLog' = Logged("update", copied')
                        /\ pc' = AfterLive
                        /\ UNCHANGED error
                   ELSE /\ Throw
                        /\ UNCHANGED <<copied, barLog>>
     ELSE /\ pc' = AfterLive
          /\ UNCHANGED <<targetDocs, copied, error, ops, batches, barLog, fault>>
  /\ UNCHANGED <<opt, sourceDocs, targetIndexes, files, indexFiles, connVars,
                 progressBar, collections, idx, total, json, allDocs, impI, cursor,
                 batch, summary, settled, histVars>>

\* const indexes = await col.indexes(); await copyIndexesToTarget(destCol, indexes)
LiveIndexes ==
  /\ pc = "liveIndexes"
  /\ \/ \E failing \in IndexFailChoices(SrcIndexes) :
          LET r == CopyIndexesToTarget(targetIndexes[name], SrcIndexes, failing)
          IN  /\ targetIndexes' = [targetIndexes EXCEPT ![name] = r.indexes]
              /\ ops' = ops \o r.calls
          /\ fault' = (fault \/ failing # {})
          /\ pc' = "liveDone"
          /\ UNCHANGED error
     \/ /\ Throw
        /\ fault' = TRUE
        /\ UNCHANGED <<targetIndexes, ops>>
  /\ UNCHANGED <<opt, sourceDocs, targetDocs, files, indexFiles, connVars,
                 progressBar, loopVars, summary, settled, batches, barLog, histVars>>

\* A variant with another word for the incremental status.
LiveStatusUpserted == IF opt.incremental THEN "upserted" ELSE "copied"

\* status: incremental ? "incremental-copied" : "copied"
LiveStatus == IF opt.incremental THEN "incremental-copied" ELSE "copied"

\* if (progressBar) progressBar.stop(); summary.push({name, copied, total, ...})
LiveDone ==
  /\ pc = "liveDone"
  /\ BarStop
  /\ PushAndContinue(Result(name, copied, total, LiveStatus))
  /\ UNCHANGED <<opt, envVars, connVars, collections, localVars, error, settled,
                 ops, batches, histVars, fault>>

\* --------------------------------------------------------------- import
\* Where an import continues after its documents.
AfterImport ==
  IF opt.copyIndexes /\ indexFiles[name].kind = "ok" THEN "importIndexes"
  ELSE "importDone"

\* A variant whose import always clears the target first.
ImportAlwaysDeletes == "importDelete"

\* if (incremental) { upserts } else { deleteMany, inserts }
ImportBranch == IF opt.incremental THEN "importUpsert" ELSE "importDelete"

\* The data file is looked up, read and parsed.
ImportRead ==
  /\ pc = "import"
  /\ \/ /\ files[name].kind = "missing"
        /\ BarStop
        /\ PushAndContinue(Result(name, 0, 0, "no-json-file"))
        /\ UNCHANGED <<json, error>>
     \/ /\ files[name].kind = "bad"
        /\ Throw
        /\ UNCHANGED <<json, summary, idx, progressBar, barLog>>
     \/ /\ files[name].kind = "ok"
        /\ json' = files[name].docs
        /\ IF Len(json') = 0
           THEN /\ BarStop
                /\ PushAndContinue(Result(name, 0, 0, "json-empty"))
           ELSE /\ pc' = ImportBranch
                /\ UNCHANGED <<summary, idx, progressBar, barLog>>
        /\ UNCHANGED error
  /\ UNCHANGED <<opt, envVars, connVars, collections, total, allDocs, impI, cursor,
                 batch, copied, settled, ops, batches, histVars, fault>>

\* await destCol.deleteMany({}) of the full import
ImportDelete ==
  /\ pc = "importDelete"
  /\ ops' = Append(ops, Op("deleteMany", 0, ""))
  /\ targetDocs' = [targetDocs EXCEPT ![name] = {}]
  /\ pc' = "importInsert"
  /\ UNCHANGED <<opt, sourceDocs, targetIndexes, files, indexFiles, connVars,
                 progressBar, loopVars, summary, error, settled, batches, barLog,
                 histVars, fault>>

\* A variant of the chunk loop that does not advance.
NextChunkStuck(i, batchSize) == i

\* i += batchSize
NextChunk(i, batchSize) == i + batchSize

\* json.slice(i, i + batchSize)
Slice(docs, i, j) == SubSeq(docs, i + 1, IF j < Len(docs) THEN j ELSE Len(docs))

\* One step of `for (let i = 0; i < json.length; i += batchSize)` with insertMany.
ImportInsert ==
  /\ pc = "importInsert"
  /\ IF impI < Len(json)
     THEN LET chunk == Slice(json, impI, impI + opt.batchSize)
          IN  \E rej \in RejectChoices(chunk) :
                LET r == InsertMany(targetDocs[name], chunk, rej)
                IN  /\ targetDocs' = [targetDocs EXCEPT ![name] = r.docs]
                    /\ ops' = Append(ops, Op("insertMany", Len(chunk), ""))
                    /\ batches' = Append(batches, chunk)
                    /\ fault' = (fault \/ rej # {})
                    /\ IF r.errors = 0
                       THEN /\ barLog' = Logged("update", impI + Len(chunk))
                            /\ impI' = NextChunk(impI, opt.batchSize)
                            /\ UNCHANGED <<pc, error>>
                       ELSE /\ Throw
                            /\ UNCHANGED <<impI, barLog>>
     ELSE /\ pc' = AfterImport
          /\ UNCHANGED <<targetDocs, impI, error, ops, batches, barLog, fault>>
  /\ UNCHANGED <<opt, sourceDocs, targetIndexes, files, indexFiles, connVars,
                 progressBar, collections, idx, total, json, allDocs, cursor, batch,
                 copied, summary, settled, histVars>>

\* One step of the same loop of the incremental import, with bulkWrite.
ImportUpsert ==
  /\ pc = "importUpsert"
  /\ IF impI < Len(json)
     THEN LET chunk == Slice(json, impI, impI + opt.batchSize)
          IN  \E rej \in RejectChoices(chunk) :
                LET r == BulkUpsert(targetDocs[name], chunk, rej)
                IN  /\ targetDocs' = [targetDocs EXCEPT ![name] = r.docs]
                    /\ ops' = Append(ops, Op("bulkWrite", Len(chunk), ""))
                    /\ batches' = Append(batches, chunk)
                    /\ fault' = (fault \/ rej # {})
                    /\ IF r.errors = 0
                       THEN /\ barLog' = Logged("update", impI + Len(chunk))
                            /\ impI' = NextChunk(impI, opt.batchSize)
                            /\ UNCHANGED <<pc, error>>
                       ELSE /\ Throw
                            /\ UNCHANGED <<impI, barLog>>
     ELSE /\ pc' = AfterImport
          /\ UNCHANGED <<targetDocs, impI, error, ops, batches, barLog, fault>>
  /\ UNCHANGED <<opt, sourceDocs, targetIndexes, files, indexFiles, connVars,
                 progressBar, collections, idx, total, json, allDocs, cursor, batch,
                 copied, summary, settled, histVars>>

\* The index file is read and copyIndexesToTarget(destCol, indexes) runs.
ImportIndexes ==
  /\ pc = "importIndexes"
  /\ LET indexes == indexFiles[name].docs
     IN  \E failing \in IndexFailChoices(indexes) :
           LET r == CopyIndexesToTarget(targetIndexes[name], indexes, failing)
           IN  /\ targetIndexes' = [targetIndexes EXCEPT ![name] = r.indexes]
               /\ ops' = ops \o r.calls
               /\ fault' = (fault \/ failing # {})
  /\ pc' = "importDone"
  /\ UNCHANGED <<opt, sourceDocs, targetDocs, files, indexFiles, connVars,
                 progressBar, loopVars, summary, error, settled, batches, barLog,
                 histVars>>

\* if (progressBar) progressBar.stop(); summary.push({... status: "imported-json"})
ImportDone ==
  /\ pc = "importDone"
  /\ BarStop
  /\ PushAndContinue(Result(name, Len(json), Len(json), "imported-json"))
  /\ UNCHANGED <<opt, envVars, connVars, collections, localVars, error, settled,
                 ops, batches, histVars, fault>>

\* --------------------------------------------------------------- export
\* JSON.stringify of a document: a Date becomes its ISO string.
Stringify(d) == [d EXCEPT !.iso = (d.ts # Null)]
StringifyAll(docs) == [i \in 1..Len(docs) |-> Stringify(docs[i])]

\* A variant that writes one array per batch: more than one array in a file
\* does not parse.
ExportFilePerBatch(docs) ==
  IF Len(docs) > opt.batchSize THEN BadFile ELSE OkFile(StringifyAll(docs))

\* fs.writeFileSync(filePath, JSON.stringify(allDocs, null, 2)): one array.
ExportFile(docs) == OkFile(StringifyAll(docs))

\* The cursor is read to its end and the data file is written.
ExportDocs ==
  /\ pc = "export"
  /\ \/ /\ allDocs' = Find(name)
        /\ files' = [files EXCEPT ![name] = ExportFile(allDocs')]
        /\ barLog' = IF progressBar.exists
                     THEN barLog \o [k \in 1..Len(allDocs') |-> BarCall("update", k)]
                     ELSE barLog
        /\ pc' = IF opt.copyIndexes THEN "exportIndexes" ELSE "exportDone"
        /\ UNCHANGED <<error, fault>>
     \/ /\ Throw
        /\ fault' = TRUE
        /\ UNCHANGED <<allDocs, files, barLog>>
  /\ UNCHANGED <<opt, sourceDocs, targetDocs, targetIndexes, indexFiles, connVars,
                 progressBar, collections, idx, total, json, impI, cursor, batch,
                 copied, summary, settled, ops, batches, histVars>>

\* const indexes = await col.indexes(); the index file is written.
ExportIndexes ==
  /\ pc = "exportIndexes"
  /\ \/ /\ indexFiles' = [indexFiles EXCEPT ![name] = OkFile(SrcIndexes)]
        /\ pc' = "exportDone"
        /\ UNCHANGED <<error, fault>>
     \/ /\ Throw
        /\ fault' = TRUE
        /\ UNCHANGED indexFiles
  /\ UNCHANGED <<opt, sourceDocs, targetDocs, targetIndexes, files, connVars,
                 progressBar, loopVars, summary, settled, logVars, histVars>>

\* if (progressBar) progressBar.stop(); summary.push({... status: "exported-json"})
ExportDone ==
  /\ pc = "exportDone"
  /\ BarStop
  /\ PushAndContinue(Result(name, Len(allDocs), total, "exported-json"))
  /\ UNCHANGED <<opt, envVars, connVars, collections, localVars, error, settled,
                 ops, batches, histVars, fault>>

\* -------------------------------------------------------------- finally
\* MongoClient.close() of one client.
Close(client) == [state |-> "closed", closes |-> client.closes + 1]

\* A variant whose finally block swallows the error.
SettleSwallows == "returned"

\* How the promise settles once the finally block is through.
Settle == IF error THEN "rejected" ELSE "returned"

\* A variant that closes the target client only on the normal path.
FinallyLeaksOnError ==
  /\ pc = "finally"
  /\ progressBar' = [progressBar EXCEPT !.active = FALSE]
  /\ sourceClient' = Close(sourceClient)
  /\ targetClient' = IF error THEN targetClient ELSE Close(targetClient)
  /\ settled' = Settle
  /\ pc' = "settled"
  /\ UNCHANGED <<opt, envVars, loopVars, summary, error, logVars, histVars, fault>>

\* finally { if (progressBar) progressBar.stop(); close both clients }, after
\* which the promise settles: with summary, or with the error.
Finally ==
  /\ pc = "finally"
  /\ progressBar' = [progressBar EXCEPT !.active = FALSE]
  /\ sourceClient' = Close(sourceClient)
  /\ targetClient' = Close(targetClient)
  /\ settled' = Settle
  /\ pc' = "settled"
  /\ UNCHANGED <<opt, envVars, loopVars, summary, error, logVars, histVars, fault>>

\* ------------------------------------------------------------ the caller
\* The caller repeats an incremental call that returned, with the same
\* options, over the unchanged source.
Rerun ==
  /\ pc = "settled"
  /\ settled = "returned"
  /\ runs = 1
  /\ opt.incremental
  /\ ~opt.dryRun
  /\ ~fault
  /\ runs' = 2
  /\ target1' = targetDocs
  /\ sourceClient' = [state |-> "new", closes |-> 0]
  /\ targetClient' = [state |-> "new", closes |-> 0]
  /\ progressBar' = [exists |-> FALSE, active |-> FALSE]
  /\ pc' = "connectSource"
  /\ collections' = opt.collections
  /\ idx' = 1
  /\ summary' = <<>>
  /\ settled' = "pending"
  /\ UNCHANGED <<opt, envVars, localVars, error, logVars, target0, index0, cli,
                 fault>>

\* The caller restores what an export that returned has written: the call is
\* repeated over the unchanged source with importJson in place of exportJson
\* and without incremental, the other options unchanged.
Reimport ==
  /\ pc = "settled"
  /\ settled = "returned"
  /\ runs = 1
  /\ ~cli.on
  /\ opt.exportJson /\ ~opt.importJson /\ ~opt.dryRun
  /\ ~fault
  /\ opt' = [opt EXCEPT !.exportJson = FALSE, !.importJson = TRUE,
                        !.incremental = FALSE]
  /\ runs' = 2
  /\ target1' = targetDocs
  /\ sourceClient' = [state |-> "new", closes |-> 0]
  /\ targetClient' = [state |-> "new", closes |-> 0]
  /\ progressBar' = [exists |-> FALSE, active |-> FALSE]
  /\ pc' = "connectSource"
  /\ collections' = opt.collections
  /\ idx' = 1
  /\ summary' = <<>>
  /\ settled' = "pending"
  /\ UNCHANGED <<envVars, localVars, error, logVars, target0, index0, cli, fault>>

\* ---------------------------------------------- command line interface
engineVars == <<opt, envVars, connVars, progressBar, loopVars, summary, error,
                settled, logVars, target0, index0, target1, runs, fault>>

\* process.exit(code)
Exit(code) ==
  /\ pc' = "exited"
  /\ cli' = [cli EXCEPT !.exited = TRUE, !.code = code]

\* A variant without the check of --export-json with --import-json.
CliValidateNoConflict ==
  /\ pc = "cliValidate"
  /\ LET a == cli.argv
     IN  \/ /\ ~a.all /\ a.collections = <<>> /\ ~a.exportJson /\ ~a.importJson
            /\ Exit(0)
         \/ /\ a.all \/ a.collections # <<>> \/ a.exportJson \/ a.importJson
            /\ pc' = "cliConfirm"
            /\ UNCHANGED cli
  /\ UNCHANGED engineVars

\* The checks of the arguments: without --all, --collections, --export-json
\* and --import-json the help is printed and the process exits with 0; with
\* both --export-json and --import-json it exits with 1.
CliValidate ==
  /\ pc = "cliValidate"
  /\ LET a == cli.argv
     IN  \/ /\ ~a.all /\ a.collections = <<>> /\ ~a.exportJson /\ ~a.importJson
            /\ Exit(0)
         \/ /\ a.all \/ a.collections # <<>> \/ a.exportJson \/ a.importJson
            /\ a.exportJson /\ a.importJson
            /\ Exit(1)
         \/ /\ a.all \/ a.collections # <<>> \/ a.exportJson \/ a.importJson
            /\ ~(a.exportJson /\ a.importJson)
            /\ pc' = "cliConfirm"
            /\ UNCHANGED cli
  /\ UNCHANGED engineVars

\* A variant of confirmAction that returns true when the prompt fails.
ConfirmActionFailsOpen(answer) == answer # "no"

\* confirmAction: !!ok, and false when the prompt throws.
ConfirmAction(answer) == answer = "yes"

\* if (!yes) { ok = await confirmAction(...); if (!ok) process.exit(0) }, then
\* copyCollections is called.
CliConfirm ==
  /\ pc = "cliConfirm"
  /\ \/ /\ cli.argv.yes
        /\ pc' = "connectSource"
        /\ UNCHANGED cli
     \/ /\ ~cli.argv.yes
        /\ \E answer \in {"yes", "no", "failed"} :
             IF ConfirmAction(answer)
             THEN /\ pc' = "connectSource"
                  /\ cli' = [cli EXCEPT !.answer = answer]
             ELSE /\ pc' = "exited"
                  /\ cli' = [cli EXCEPT !.answer = answer, !.exited = TRUE, !.code = 0]
  /\ UNCHANGED engineVars

\* The results are logged and the process exits with 0; a rejection is caught,
\* logged, and the process exits with 1.
CliExit ==
  /\ pc = "settled"
  /\ cli.on
  /\ Exit(IF settled = "returned" THEN 0 ELSE 1)
  /\ UNCHANGED engineVars

Next ==
  \/ ConnectSource
  \/ ConnectTarget
  \/ ListCollections
  \/ LoopNext
  \/ LoopEnd
  \/ Count
  \/ ProbeInsert
  \/ ProbeDelete
  \/ DryRun
  \/ StartTransfer
  \/ DeleteMany
  \/ FullLoop
  \/ IncLoop
  \/ IncRemainder
  \/ LiveIndexes
  \/ LiveDone
  \/ ImportRead
  \/ ImportDelete
  \/ ImportInsert
  \/ ImportUpsert
  \/ ImportIndexes
  \/ ImportDone
  \/ ExportDocs
  \/ ExportIndexes
  \/ ExportDone
  \/ Finally
  \/ Rerun
  \/ Reimport
  \/ CliValidate
  \/ CliConfirm
  \/ CliExit

Spec == Init /\ [][Next]_vars

\* Every store operation, file operation and prompt returns, and the event
\* loop resumes the function after each await: a step that can be taken is
\* taken.
FairSpec == Spec /\ WF_vars(Next)

\* ------------------------------------------------------- type invariant
TypeOK ==
  /\ pc \in {"connectSource", "connectTarget", "list", "loop", "count", "probe",
             "probeDelete", "dryRun", "deleteMany", "fullLoop", "incLoop",
             "incRemainder", "liveIndexes", "liveDone", "import", "importDelete",
             "importInsert", "importUpsert", "importIndexes", "importDone",
             "export", "exportIndexes", "exportDone", "finally", "settled",
             "cliValidate", "cliConfirm", "exited"}
  /\ settled \in {"pending", "returned", "rejected"}
  /\ \A c \in Names : \A x, y \in targetDocs[c] : x.id = y.id => x = y

\* =================================================================== claims
Returned == pc = "settled" /\ settled = "returned"
\* Both connects succeeded: the run got into the try block.
PastConnect == /\ sourceClient.state \in {"open", "closed"}
               /\ targetClient.state \in {"open", "closed"}
LiveCopy == ~opt.dryRun /\ ~opt.exportJson /\ ~opt.importJson
MatchedSet(c) == SeqToSet(Find(c))
FailureStatuses == {"schema-validation-failed", "failed", "error"}

\* ------------------------------------------------------------------- C1
\* C1 (as claimed): after a non-incremental live copy has returned, in an
\* environment in which no operation failed, the target collection of every
\* selected collection with a matched source document holds exactly the
\* source's matched documents, whatever the target held before.
C1_FullCopyOverwrites ==
  (Returned /\ LiveCopy /\ ~opt.incremental /\ ~fault) =>
    \A i \in 1..Len(collections) :
      CountDocuments(collections[i]) >= 1 =>
        targetDocs[collections[i]] = MatchedSet(collections[i])

C4_BothClosedOnce ==
  /\ sourceClient.closes <= 1 /\ targetClient.closes <= 1
  /\ (pc = "settled" /\ PastConnect) =>
       /\ sourceClient = [state |-> "closed", closes |-> 1]
       /\ targetClient = [state |-> "closed", closes |-> 1]

\* A run that rejected after a write error, both clients closed.
C4_Witness ==
  /\ pc = "settled" /\ settled = "rejected" /\ PastConnect
  /\ Len(batches) >= 1
  /\ sourceClient.state = "closed" /\ targetClient.state = "closed"

\* ------------------------------------------------------------------- C5
\* C5 (as claimed): when a connect fails the promise rejects without results
\* and no client that did connect is left open.
C5_ConnectFailureLeavesNothingOpen ==
  (pc = "settled" /\ ~PastConnect) =>
    /\ settled = "rejected"
    /\ summary = <<>>
    /\ sourceClient.state # "open"
    /\ targetClient.state # "open"

\* ------------------------------------------------------------------- C6
\* C6: when an incremental call that returned is repeated with the same
\* options over the unchanged source, and no operation fails for a reason of
\* the environment, the target after the second run is the target after the
\* first.
C6_IncrementalIdempotent ==
  (runs = 2 /\ opt.incremental /\ Returned /\ ~fault) => targetDocs = target1

\* A second run that upserted again into a target the first run had changed.
C6_Witness ==
  /\ runs = 2 /\ Returned /\ ~fault
  /\ target1 # target0
  /\ \E i \in 1..Len(summary) : summary[i].status = "incremental-copied"

\* ------------------------------------------------------------------- C7
\* The _ids of the documents an incremental run transfers for collection c:
\* those of the data file for an import, else those the query matches.
TransferredIds(c) ==
  IF opt.importJson THEN IdsOf(SeqToSet(files[c].docs)) ELSE IdsOf(MatchedSet(c))

\* C7: in an incremental run, at every moment, every document the target held
\* before the run whose _id is not among the transferred ones is still in the
\* target, unchanged.
C7_IncrementalKeepsOthers ==
  opt.incremental =>
    \A c \in Names : \A d \in target0[c] :
      d.id \notin TransferredIds(c) => d \in targetDocs[c]

\* An incremental run that wrote into a collection and left an untransferred
\* old document in it.
C7_Witness ==
  /\ opt.incremental /\ Returned
  /\ \E c \in Names :
       /\ targetDocs[c] # target0[c]
       /\ \E d \in target0[c] : d.id \notin TransferredIds(c) /\ d \in targetDocs[c]

\* ------------------------------------------------------------------- C8
RECURSIVE Flatten(_)
Flatten(ss) == IF ss = <<>> THEN <<>> ELSE Head(ss) \o Flatten(Tail(ss))
Ceil(n, b) == (n + b - 1) \div b

\* C8: when a live copy's loop (full replace or incremental) is over, it has
\* issued ceil(n / batchSize) batch writes for the n documents of the cursor,
\* every batch but the last holds batchSize documents, and the batches in
\* write order concatenate to the cursor's document sequence.
C8_BatchesPartitionCursor ==
  pc \in {"liveIndexes", "liveDone"} =>
    LET n == Len(Find(name))
    IN  /\ Len(batches) = Ceil(n, opt.batchSize)
        /\ \A k \in 1..(Len(batches) - 1) : Len(batches[k]) = opt.batchSize
        /\ \A k \in 1..Len(batches) : Len(batches[k]) \in 1..opt.batchSize
        /\ Flatten(batches) = Find(name)

\* Three documents with batchSize 2: two batches, of 2 and of 1.
C8_Witness ==
  /\ pc = "liveDone" /\ opt.batchSize = 2
  /\ Len(batches) = 2 /\ Len(batches[1]) = 2 /\ Len(batches[2]) = 1

\* ------------------------------------------------------------------- C9
\* C9: a collection whose source count under the query is 0 gets the result
\* {copied: 0, total: 0, status: "no-new-docs" when incremental, else "empty"},
\* and when that result has been pushed nothing was issued against the target
\* and no progress bar call was made for the collection.  (total is the count
\* the run took; where the run cannot change the source, the count is also
\* taken again afterwards.)
C9_EmptyCollectionUntouched ==
  /\ ~opt.aliased =>
       \A i \in 1..Len(summary) :
         CountDocuments(collections[i]) = 0 =>
           summary[i] = Result(collections[i], 0, 0,
                               IF opt.incremental THEN "no-new-docs" ELSE "empty")
  /\ (pc = "loop" /\ idx > 1 /\ total = 0) =>
       /\ summary[idx - 1] = Result(collections[idx - 1], 0, 0,
                                    IF opt.incremental THEN "no-new-docs" ELSE "empty")
       /\ ops = <<>>
       /\ barLog = <<>>
       /\ batches = <<>>

\* An empty source collection in a run with every feature on, over a target
\* that holds documents.
C9_Witness ==
  /\ pc = "loop" /\ idx > 1 /\ total = 0
  /\ opt.validateSchema /\ opt.copyIndexes /\ opt.incremental /\ ~opt.dryRun
  /\ targetDocs[collections[idx - 1]] # {}

\* ------------------------------------------------------------------ C10
\* C10: in a dry run the target's documents and indexes never change, and
\* every result carries the source's matched count as total, copied 0 and the
\* status "dry-run", or the empty status when the count is 0.
C10_DryRunWritesNothing ==
  opt.dryRun =>
    /\ targetDocs = target0
    /\ targetIndexes = index0
    /\ \A i \in 1..Len(summary) :
         LET n == CountDocuments(collections[i])
         IN  summary[i] = Result(collections[i], 0, n,
                                 IF n = 0
                                 THEN (IF opt.incremental THEN "no-new-docs" ELSE "empty")
                                 ELSE "dry-run")

\* A dry run with the schema probe, index copying, incremental and import all
\* requested, over a target that holds documents.
C10_Witness ==
  /\ opt.dryRun /\ opt.validateSchema /\ opt.copyIndexes /\ opt.incremental
  /\ opt.importJson /\ Returned
  /\ \E i \in 1..Len(summary) : summary[i].status = "dry-run" /\ summary[i].total >= 2
  /\ \E c \in Names : target0[c] # {}

\* ------------------------------------------------------------------ C11
\* A batch write of the current collection's live copy reported a write error:
\* it was issued and its documents were not counted.
WriteFailed == LiveCopy /\ Len(Flatten(batches)) > copied

\* C11 (as claimed): a write error of a document inside a batch of a live copy
\* raises nothing, and the collection ends with the status "copied" or
\* "incremental-copied".
C11_WriteFailureTolerated ==
  WriteFailed =>
    /\ ~error
    /\ pc \in {"loop", "finally", "settled"} =>
         /\ Len(summary) >= idx - 1 /\ idx > 1
         /\ summary[idx - 1].status \in {"copied", "incremental-copied"}

\* ------------------------------------------------------------------ C12
SchemaFailed == "schema-validation-failed"

\* C12: when the probe's insert or its delete fails (the step leaves the target
\* as it was, and it was no unacknowledged insert), the collection's result
\* {copied: 0, status: "schema-validation-failed"} is pushed and the loop goes
\* on with the next collection without an error; for that collection nothing
\* but the probe's own insertOne and deleteOne was issued against the target,
\* no batch was written and no progress bar was started.
C12_ProbeFailureSkips ==
  /\ []((pc = "loop" /\ idx > 1 /\ summary[idx - 1].status = SchemaFailed) =>
         /\ summary[idx - 1] = Result(collections[idx - 1], 0, total, SchemaFailed)
         /\ \A k \in 1..Len(ops) : ops[k].op \in {"insertOne", "deleteOne"}
         /\ batches = <<>>
         /\ barLog = <<>>
         /\ ~error)
  /\ [][(\/ /\ pc = "probe" /\ targetDocs' = targetDocs
             /\ (FindOne(name).id \notin IdsOf(targetDocs[name]) \/ ~fault')
          \/ (pc = "probeDelete" /\ targetDocs' = targetDocs)) =>
         /\ pc' = "loop"
         /\ idx' = idx + 1
         /\ summary' = Append(summary, Result(name, 0, total, SchemaFailed))
         /\ ~error']_vars

\* The first collection failed the probe at its delete, and the second is
\* being copied.
C12_Witness ==
  /\ Len(summary) = 1 /\ summary[1].status = SchemaFailed /\ idx = 2
  /\ pc \in {"fullLoop", "incLoop"} /\ copied >= 1
  /\ \E d \in targetDocs[collections[1]] : d.test

\* ------------------------------------------------------------------ C13
\* C13 (as claimed): where the target rejects nothing of what the source holds
\* (no operation fails for a reason of the environment), no collection is
\* recorded as "schema-validation-failed", whatever the target held before.
C13_ProbePassesUnlessMismatch ==
  ~fault => \A i \in 1..Len(summary) : summary[i].status # SchemaFailed

\* ------------------------------------------------------------------ C14
\* C14 (as claimed): when source and target are one database, a full live copy
\* (here: without the schema probe) that returned reports copied = total for
\* every collection that held documents, and the collection still holds all of
\* them.
C14_AliasedFullCopyKeepsDocs ==
  (opt.aliased /\ LiveCopy /\ ~opt.incremental /\ ~opt.validateSchema /\ ~fault
     /\ Returned) =>
    \A i \in 1..Len(summary) :
      summary[i].total >= 1 =>
        /\ summary[i].copied = summary[i].total
        /\ targetDocs[collections[i]] = SeqToSet(sourceDocs[collections[i]])

\* ------------------------------------------------------------------ C15
CreateIndexCalls == LET IsCreate(o) == o.op = "createIndex" IN SelectSeq(ops, IsCreate)

\* C15: no createIndex is ever issued for the index named "_id_", in the live
\* copy and in the import, and no index of that name is ever created on the
\* target.
C15_NeverCreatesIdIndex ==
  /\ \A k \in 1..Len(ops) : ops[k].op = "createIndex" => ops[k].index # "_id_"
  /\ \A c \in Names : \A x \in targetIndexes[c] : x.name # "_id_"

\* An import replicated the indexes of an index file that lists "_id_".
C15_Witness ==
  /\ pc = "importDone" /\ Len(CreateIndexCalls) = 2
  /\ IdIndex \in SeqToSet(indexFiles[name].docs)

\* ------------------------------------------------------------------ C16
\* The index definitions replicated for the collection just processed.
IndexList(c) == IF opt.importJson THEN indexFiles[c].docs ELSE SrcIndexes

\* C16: whenever index replication ran for a collection, a createIndex was
\* issued for every index of the list but "_id_", in order, whether or not one
\* of them failed; no error is raised, and the collection's result carries its
\* normal status and counts.
C16_IndexFailureNotEscalated ==
  /\ (pc \in {"liveDone", "importDone"} /\ CreateIndexCalls # <<>>) =>
       /\ CreateIndexCalls = IndexOps(IndexList(name))
       /\ ~error
  /\ (pc = "loop" /\ idx > 1 /\ CreateIndexCalls # <<>>) =>
       /\ ~error
       /\ summary[idx - 1] =
            IF opt.importJson
            THEN Result(collections[idx - 1], Len(json), Len(json), "imported-json")
            ELSE Result(collections[idx - 1], copied, total,
                        IF opt.incremental THEN "incremental-copied" ELSE "copied")

\* A copied collection whose first createIndex failed and whose second
\* succeeded.
C16_Witness ==
  /\ pc = "loop" /\ idx > 1 /\ Len(CreateIndexCalls) = 2
  /\ summary[idx - 1].status = "copied" /\ summary[idx - 1].copied >= 1
  /\ IndexSpec(SrcIndexes[2]) \notin targetIndexes[collections[idx - 1]]
  /\ IndexSpec(SrcIndexes[3]) \in targetIndexes[collections[idx - 1]]

\* ------------------------------------------------------------------ C17
BarStarted == \E k \in 1..Len(barLog) : barLog[k].call = "start"

\* C17: between two collections and when the promise has settled no progress
\* bar is open; a bar started for a collection has had its stop as the last
\* call when the collection's result is pushed.
C17_BarsStopped ==
  /\ pc \in {"loop", "settled"} => ~progressBar.active
  /\ (pc = "loop" /\ idx > 1 /\ BarStarted) => barLog[Len(barLog)].call = "stop"

\* A run that rejected after an error in the middle of a transfer whose bar
\* had been started and updated.
C17_Witness ==
  /\ pc = "settled" /\ error /\ BarStarted /\ Len(batches) >= 1
  /\ Len(barLog) >= 2

\* ------------------------------------------------------------------ C18
\* The counts reported to the progress bar for the current collection.
Updates ==
  LET IsUpdate(b) == b.call = "update"
      u == SelectSeq(barLog, IsUpdate)
  IN  [k \in 1..Len(u) |-> u[k].n]

\* C18: in a live copy with showProgress, the k-th count reported is the
\* number of documents of the first k batches, the counts are strictly
\* increasing, there is one per completed batch write (none for a write that
\* failed), and the last one is copied, the count of the result.
C18_ProgressIsCumulative ==
  (LiveCopy /\ opt.showProgress) =>
    /\ \A k \in 1..Len(Updates) : Updates[k] = Len(Flatten(SubSeq(batches, 1, k)))
    /\ \A k \in 1..(Len(Updates) - 1) : Updates[k] < Updates[k + 1]
    /\ Len(Updates) = Len(batches) - (IF WriteFailed THEN 1 ELSE 0)
    /\ Len(Updates) > 0 => Updates[Len(Updates)] = copied
    /\ (pc = "loop" /\ idx > 1 /\ Len(Updates) > 0) =>
         summary[idx - 1].copied = Updates[Len(Updates)]

\* Three documents in batches of 2 and 1: the bar was told 2, then 3.
C18_Witness ==
  /\ LiveCopy /\ opt.showProgress /\ pc = "loop" /\ idx > 1
  /\ Updates = <<2, 3>> /\ summary[idx - 1].copied = 3

\* ------------------------------------------------------------------ C19
\* The run is inside the try block, past the filter of the request.
Resolved == PastConnect /\ pc # "list"
SummaryNames == [i \in 1..Len(summary) |-> summary[i].name]

\* C19 (as claimed): the collections processed are the requested names that
\* exist on the source, each once and in the source's listing order.
C19_ListingOrderOnce ==
  Resolved =>
    LET Wanted(c) == opt.collections = <<>> \/ c \in SeqToSet(opt.collections)
    IN  collections = SelectSeq(SrcListing, Wanted)

\* C19 (amended): the collections processed are the requested names that exist
\* on the source, in the order of the request and once for every occurrence in
\* it, or all source collections in listing order when no name is requested;
\* the results of a run that returned name them in that order.
C19_RequestOrderKept ==
  Resolved =>
    LET Exists(c) == \E k \in 1..Len(SrcListing) : SrcListing[k] = c
    IN  /\ collections = IF opt.collections = <<>> THEN SrcListing
                         ELSE SelectSeq(opt.collections, Exists)
        /\ Returned => SummaryNames = collections

\* A request that names "a" twice: it was copied twice.
C19_Witness ==
  /\ Returned /\ opt.collections = <<"a", "a">> /\ ~opt.dryRun
  /\ SummaryNames = <<"a", "a">> /\ summary[2].status = "copied"

\* ------------------------------------------------------------------ C20
\* The number of documents of source collection c the call is to transfer:
\* all of them, or in the incremental case with since those whose timestamp
\* field holds a value >= since.
Expected(c) ==
  Cardinality({k \in 1..Len(sourceDocs[c]) :
                 (opt.incremental /\ opt.since # Null) =>
                   (sourceDocs[c][k].ts # Null /\ sourceDocs[c][k].ts >= opt.since)})

\* No write failed: the environment rejected nothing, and no probe insert
\* failed either.
NoWriteFailure == ~fault /\ \A i \in 1..Len(summary) : summary[i].status # SchemaFailed

\* C20: a live copy that returned, over a source the run does not change
\* (source and target are two databases) and without a write failure, has for
\* every collection with n >= 1 documents to transfer the result
\* {copied: n, total: n}, "incremental-copied" when incremental, else "copied".
C20_LiveCopyCounts ==
  (LiveCopy /\ ~opt.aliased /\ NoWriteFailure /\ Returned) =>
    \A i \in 1..Len(summary) :
      LET n == Expected(collections[i])
      IN  n >= 1 =>
            summary[i] = Result(collections[i], n, n,
                                IF opt.incremental THEN "incremental-copied" ELSE "copied")

\* since excludes 1 of 3 documents: copied 2 of 2, the document whose
\* timestamp equals since among them.
C20_Witness ==
  /\ LiveCopy /\ ~opt.aliased /\ NoWriteFailure /\ Returned
  /\ opt.incremental /\ opt.since = 1
  /\ \E i \in 1..Len(summary) :
       /\ Len(sourceDocs[collections[i]]) = 3
       /\ summary[i] = Result(collections[i], 2, 2, "incremental-copied")

\* ------------------------------------------------------------------ C21
\* The documents of source collection c the filter is to match, in natural
\* order: all of them, or with incremental and since those whose timestamp
\* field holds a date >= since (a string is no date, a missing field matches
\* nothing).
ToMatch(c) ==
  LET Wanted(d) == (opt.incremental /\ opt.since # Null) =>
                     (d.ts # Null /\ ~d.iso /\ d.ts >= opt.since)
  IN  SelectSeq(Source(c), Wanted)

\* C21: the count, the probe's sample, the live copy and the export all see
\* the documents of ToMatch: total is their number, the probe inserts the first
\* of them, the batches of a live copy concatenate to them and the export
\* reads exactly them.
C21_OneFilter ==
  /\ pc \in {"probe", "dryRun"} => total = Len(ToMatch(name))
  /\ (pc = "loop" /\ idx > 1 /\ total = 0) => ToMatch(collections[idx - 1]) = <<>>
  /\ pc = "probeDelete" =>
       \E d \in targetDocs[name] : d.test /\ d.id = Head(ToMatch(name)).id
  /\ (pc \in {"liveIndexes", "liveDone"} /\ ~opt.aliased) =>
       Flatten(batches) = ToMatch(name)
  /\ pc \in {"exportIndexes", "exportDone"} => allDocs = ToMatch(name)

\* An export with since = 1 of a collection of 3 documents read 2 of them.
C21_Witness ==
  /\ pc = "exportDone" /\ opt.incremental /\ opt.since = 1
  /\ Len(Source(name)) = 3 /\ Len(allDocs) = 2 /\ total = 2

\* ------------------------------------------------------------------ C22
Statuses == {summary[i].status : i \in 1..Len(summary)}

\* C22 (as claimed): every status recorded is one of the ten values of the
\* specification.
C22_StatusesOfSpec ==
  Statuses \subseteq {"empty", "no-new-docs", "dry-run", "schema-validation-failed",
                      "no-source-file", "source-empty", "imported", "exported",
                      "incremental-copied", "copied"}

\* C22 (amended): every status recorded is one of the ten values the code
\* uses.
C22_StatusesOfCode ==
  Statuses \subseteq {"empty", "no-new-docs", "dry-run", "schema-validation-failed",
                      "no-json-file", "json-empty", "imported-json", "exported-json",
                      "incremental-copied", "copied"}

\* A run that recorded an export, and one status more.
C22_Witness ==
  /\ Returned /\ "exported-json" \in Statuses /\ Cardinality(Statuses) = 2

\* ------------------------------------------------------------------ C23
\* The collection whose result was pushed last.
Last == collections[idx - 1]
Pushed == pc = "loop" /\ idx > 1

\* C23 (as claimed): in an import, a collection whose data file is missing gets
\* the status "no-source-file", one whose file holds an empty array gets
\* "source-empty", and nothing was issued against the target for it.
C23_NoFileUntouched ==
  (opt.importJson /\ ~opt.dryRun /\ Pushed
     /\ (files[Last].kind = "missing" \/ files[Last] = OkFile(<<>>))) =>
    /\ summary[idx - 1].status =
         IF files[Last].kind = "missing" THEN "no-source-file" ELSE "source-empty"
    /\ ops = <<>>

\* C23 (amended): in an import that is no dry run, a collection with a
\* non-zero source count that got past the schema probe gets the result
\* {copied: 0, total: 0, status: "no-json-file"} when its data file is missing
\* and "json-empty" when the file holds an empty array; nothing was issued
\* against the target for it but, with validateSchema and without exportJson,
\* the probe's insertOne and (the insert acknowledged) deleteOne, which come
\* before the file is looked at.
C23_NoJsonFileOnlyProbed ==
  /\ [](Pushed /\ summary[idx - 1].status \in {"no-json-file", "json-empty"} =>
         /\ opt.importJson
         /\ files[Last] = IF summary[idx - 1].status = "no-json-file"
                           THEN NoFile ELSE OkFile(<<>>)
         /\ summary[idx - 1].copied = 0 /\ summary[idx - 1].total = 0
         /\ IF opt.validateSchema /\ ~opt.exportJson
            THEN \/ ops = <<Op("insertOne", 1, ""), Op("deleteOne", 1, "")>>
                 \/ fault /\ ops = <<Op("insertOne", 1, "")>>
            ELSE ops = <<>>
         /\ batches = <<>>)
  /\ [][(pc = "import" /\ (files[name].kind = "missing" \/ files[name] = OkFile(<<>>))) =>
         /\ pc' = "loop"
         /\ summary' = Append(summary,
                              Result(name, 0, 0, IF files[name].kind = "missing"
                                                 THEN "no-json-file" ELSE "json-empty"))
         /\ ops' = ops /\ targetDocs' = targetDocs]_vars

\* An import with validateSchema found no data file after a probe that
\* passed.
C23_Witness ==
  /\ Pushed /\ summary[idx - 1].status = "no-json-file" /\ total >= 1
  /\ Len(ops) = 2

\* ------------------------------------------------------------------ C24
ImportStatuses == {"no-json-file", "json-empty", "imported-json"}

\* C24 (as claimed): in every result, of every mode, total is the number of
\* source documents the filter matches (the run cannot change the source
\* where source and target are two databases).
C24_TotalIsSourceCount ==
  ~opt.aliased =>
    \A i \in 1..Len(summary) : summary[i].total = Len(ToMatch(collections[i]))

\* C24 (amended): in every result that is not of import's file handling, total
\* is the count of matching source documents the run took before the
\* transfer; in the results "no-json-file", "json-empty" and "imported-json"
\* total is the number of documents of the data file (0 without a file).
\* copied is the number of documents written for the collection: into the
\* target by batch writes, or into the data file by an export.
C24_TotalAndCopied ==
  /\ ~opt.aliased =>
       \A i \in 1..Len(summary) :
         summary[i].status \notin ImportStatuses =>
           summary[i].total = Len(ToMatch(collections[i]))
  /\ Pushed =>
       LET r == summary[idx - 1]
       IN  /\ r.total = IF r.status \in ImportStatuses THEN Len(json) ELSE total
           /\ r.status \in ImportStatuses => Len(json) = Len(files[Last].docs)
           /\ r.copied = IF r.status = "exported-json" THEN Len(files[Last].docs)
                         ELSE Len(Flatten(batches))

\* An import of a file of 2 documents for a collection whose source count is
\* 3: total is 2.
C24_Witness ==
  /\ Pushed /\ summary[idx - 1] = Result(Last, 2, 2, "imported-json") /\ total = 3

\* ------------------------------------------------------------------ C28
\* The positions in ops of the operations named o.
OpsNamed(o) == {k \in 1..Len(ops) : ops[k].op = o}

\* C28: for one collection, deleteMany is issued at most once, every
\* insertMany comes after it, a collection that ended as "copied" or
\* "imported-json" in a non-incremental run had exactly one, and an
\* incremental run issues none.
C28_DeleteOnceBeforeInserts ==
  /\ Cardinality(OpsNamed("deleteMany")) <= 1
  /\ \A k \in OpsNamed("insertMany") : \E j \in OpsNamed("deleteMany") : j < k
  /\ opt.incremental => OpsNamed("deleteMany") = {}
  /\ (Pushed /\ ~opt.incremental
        /\ summary[idx - 1].status \in {"copied", "imported-json"}) =>
       Cardinality(OpsNamed("deleteMany")) = 1

\* A full copy in two batches after a schema probe: insertOne, deleteOne,
\* deleteMany, insertMany, insertMany.
C28_Witness ==
  /\ Pushed /\ summary[idx - 1].status = "copied"
  /\ OpsNamed("deleteMany") = {3} /\ OpsNamed("insertMany") = {4, 5}

\* ------------------------------------------------------------------ C29
\* C29: a probe insert has been issued for the current collection, or a
\* document with the probe's marker is in the target, only if validateSchema
\* is true, dryRun and exportJson are false and, for the insert, the
\* collection's count is not 0.
C29_ProbeOnlyWhenEnabled ==
  /\ OpsNamed("insertOne") # {} =>
       opt.validateSchema /\ ~opt.dryRun /\ ~opt.exportJson /\ total >= 1
  /\ (\E c \in Names : \E d \in targetDocs[c] : d.test) =>
       opt.validateSchema /\ ~opt.dryRun /\ ~opt.exportJson

\* The probe's document is in the target in an import.
C29_Witness ==
  /\ pc = "probeDelete" /\ opt.importJson /\ OpsNamed("insertOne") = {1}
  /\ \E d \in targetDocs[name] : d.test

\* ------------------------------------------------------------------ C30
\* The positions in barLog of the calls named c.
BarCalls(c) == {k \in 1..Len(barLog) : barLog[k].call = c}

\* C30: for one collection the bar is started at most once; a start is the
\* first call, carries the collection's total, and that total is not 0; with
\* showProgress a batch is written only after the start; a collection that
\* was transferred had exactly one start, one whose total is 0 had no call.
C30_BarStartedOnceFirst ==
  /\ Cardinality(BarCalls("start")) <= 1
  /\ BarCalls("start") # {} => barLog[1] = BarCall("start", total) /\ total > 0
  /\ BarCalls("update") # {} => BarCalls("start") = {1}
  /\ (opt.showProgress /\ batches # <<>>) => BarCalls("start") = {1}
  /\ (Pushed /\ total = 0) => barLog = <<>>
  /\ (Pushed /\ opt.showProgress
        /\ summary[idx - 1].status \in {"copied", "incremental-copied",
                                         "imported-json", "exported-json"}) =>
       BarCalls("start") = {1}

\* An incremental copy of 2 of 3 documents with batchSize 1: start with 2,
\* two updates, stop.
C30_Witness ==
  /\ Pushed /\ summary[idx - 1].status = "incremental-copied"
  /\ barLog = <<BarCall("start", 2), BarCall("update", 1), BarCall("update", 2),
                BarCall("stop", 0)>>

\* ------------------------------------------------------------------ C25
\* Whether the command line interface has called copyCollections.
EngineStarted ==
  \/ pc \notin {"cliValidate", "cliConfirm", "exited"}
  \/ sourceClient.state # "new"
  \/ targetClient.state # "new"
  \/ settled # "pending"

\* C25: in a run of the command line interface without --yes, as long as
\* the prompt has not been answered with yes, copyCollections has not been
\* called: no client has connected, no operation has been issued and the
\* target, its indexes and the files are what they were; once the answer is
\* no, or the prompt has failed, the process has exited with code 0.
C25_ConfirmationGate ==
  (cli.on /\ ~cli.argv.yes /\ cli.answer # "yes") =>
    /\ ~EngineStarted
    /\ ops = <<>> /\ batches = <<>> /\ barLog = <<>>
    /\ targetDocs = target0 /\ targetIndexes = index0
    /\ cli.answer \in {"no", "failed"} =>
         pc = "exited" /\ cli.exited /\ cli.code = 0

\* The prompt failed in a run without --yes, and the process has exited.
C25_Witness ==
  /\ cli.on /\ ~cli.argv.yes /\ ~cli.argv.dryRun
  /\ cli.answer = "failed"
  /\ cli.exited

\* ------------------------------------------------------------------ C26
\* C26: whatever its options, copyCollections never raises to its caller: the
\* call is pending, has returned, or its promise has rejected; and when a
\* connect has failed or an error has left the try block, the promise has
\* rejected once the call is over.
C26_FailuresReject ==
  /\ settled \in {"pending", "returned", "rejected"}
  /\ (/\ pc \in {"settled", "exited"}
      /\ \/ sourceClient.state = "failed"
         \/ targetClient.state = "failed"
         \/ error)
       => settled = "rejected"

\* The source is unreachable in a call with an empty selection, the probe and
\* the index copy enabled and the progress bar off: the promise has rejected.
C26_Witness ==
  /\ ~cli.on
  /\ opt.collections = <<>> /\ opt.validateSchema /\ opt.copyIndexes
  /\ ~opt.showProgress
  /\ sourceClient.state = "failed"
  /\ settled = "rejected"

\* ------------------------------------------------------------------ C27
\* Whether a raw value parses, after trimming when trim is set, to a finite
\* number above 0.
Usable(raw, trim) ==
  raw.set /\ FinitePositive(ParseInt(IF trim THEN Trim(raw.s) ELSE raw.s))

\* C27: in a run of the command line interface the batch size of the options
\* is a positive integer: the value parsed from --batch-size when that is
\* finite and above 0, else the value parsed from BATCH_SIZE when that is
\* finite and above 0, else 1000.
C27_BatchSizePositive ==
  cli.on =>
    /\ opt.batchSize \in Nat /\ opt.batchSize >= 1
    /\ LET arg == cli.argv.batchSize
           raw == cli.argv.envBatchSize
       IN  opt.batchSize =
             IF Usable(arg, FALSE) THEN ParseInt(arg.s).n
             ELSE IF Usable(raw, TRUE) THEN ParseInt(Trim(raw.s)).n
             ELSE 1000

\* --batch-size -2 with BATCH_SIZE "2 ": the engine has run with batch size 2.
C27_Witness ==
  /\ cli.on
  /\ cli.argv.batchSize = Set(<<"-", "2">>)
  /\ cli.argv.envBatchSize = Set(<<"2", " ">>)
  /\ opt.batchSize = 2
  /\ sourceClient.state = "closed"
  /\ settled = "returned"

\* ------------------------------------------------------------------ C31
\* The positions in ops of the batch writes.
BatchWrites == OpsNamed("insertMany") \cup OpsNamed("bulkWrite")

\* C31: in a live copy, a createIndex has been issued for the current
\* collection only if copyIndexes is set, the run is no dry run and the count
\* was not 0; it comes after every batch write of the collection; the cursor
\* was read to its end, every batch written was counted and (the source being
\* another database) the documents counted are all the matched ones; and the
\* collection's result, once pushed, carries the status of a transfer.
C31_IndexesAfterBatches ==
  (LiveCopy /\ OpsNamed("createIndex") # {}) =>
    /\ opt.copyIndexes /\ ~opt.dryRun /\ total > 0
    /\ \A w \in BatchWrites : \A k \in OpsNamed("createIndex") : w < k
    /\ cursor.open /\ cursor.rest = <<>>
    /\ copied = Len(Flatten(batches))
    /\ ~opt.aliased => copied = total /\ BatchWrites # {}
    /\ Pushed => summary[idx - 1].status = LiveStatus

\* A live copy wrote two batches and then issued two createIndex calls.
C31_Witness ==
  /\ LiveCopy /\ opt.copyIndexes
  /\ pc = "liveDone"
  /\ Len(batches) = 2
  /\ Cardinality(OpsNamed("createIndex")) = 2

\* ------------------------------------------------------------------ C32
\* A definition without its fields v and ns.
WithoutInternal(index) == [f \in DOMAIN index \ {"v", "ns"} |-> index[f]]
\* The definitions of a list but "_id_", in the list's order.
Replicated(indexes) ==
  LET Other(i) == i.name # "_id_" IN SelectSeq(indexes, Other)

\* C32: once index replication has run for a collection, one createIndex has
\* been issued for every definition of the list but "_id_", in the list's
\* order; and, when none of them failed, the target holds for each of them an
\* index with the definition's key, name and options and without v and ns,
\* next to the indexes it held before the run, and no other.
C32_IndexesReplicated ==
  (pc \in {"liveDone", "importDone"} /\ OpsNamed("createIndex") # {}) =>
    LET list == Replicated(IndexList(name))
    IN  /\ Len(CreateIndexCalls) = Len(list)
        /\ \A k \in 1..Len(list) : CreateIndexCalls[k].index = list[k].name
        /\ ~fault =>
             targetIndexes[name] =
               index0[name] \cup {WithoutInternal(list[k]) : k \in 1..Len(list)}

\* The index file's definitions, "_id_" in the middle, were replicated by an
\* import without a failure.
C32_Witness ==
  /\ opt.importJson /\ opt.copyIndexes /\ ~fault
  /\ pc = "importDone"
  /\ Cardinality(OpsNamed("createIndex")) = 2
  /\ WithoutInternal(SrcIndexes[2]) \in targetIndexes[name]

\* ------------------------------------------------------------------ C33
ExportMode == opt.exportJson /\ ~opt.importJson /\ ~opt.dryRun
\* Whether the file's document f is the serialisation of document d: the
\* same _id, timestamp, payload and marker.
Serialises(f, d) == f.id = d.id /\ f.ts = d.ts /\ f.v = d.v /\ f.test = d.test

\* C33: in an export, a collection whose result is "exported-json" has a data
\* file that parses as one array holding the matched documents, each once, in
\* the cursor's order, whatever batchSize is, and the result's copied is the
\* array's length and at least 1; and the step that writes the file changes no
\* other data file and no index file.
C33_ExportFile ==
  /\ [](ExportMode /\ Pushed /\ summary[idx - 1].status = "exported-json" =>
          LET file == files[Last]
              docs == ToMatch(Last)
          IN  /\ file.kind = "ok"
              /\ Len(file.docs) = Len(docs)
              /\ \A k \in 1..Len(docs) : Serialises(file.docs[k], docs[k])
              /\ summary[idx - 1].copied = Len(file.docs)
              /\ summary[idx - 1].copied >= 1)
  /\ [][pc = "export" /\ ~error' =>
          /\ \A c \in Names \ {name} : files'[c] = files[c]
          /\ files'[name].kind = "ok"
          /\ indexFiles' = indexFiles]_vars

\* An export with batchSize 1 wrote a file of more than one document.
C33_Witness ==
  /\ ExportMode /\ opt.batchSize = 1
  /\ Pushed /\ summary[idx - 1].status = "exported-json"
  /\ Len(files[Last].docs) >= 2

\* ------------------------------------------------------------------ C34
\* C34: in a run with exportJson and without importJson, whatever
\* validateSchema, copyIndexes, incremental and dryRun are, no operation is
\* ever issued against the target (no insertOne or deleteOne of the probe, no
\* deleteMany, insertMany, bulkWrite or createIndex), and the target's
\* documents and indexes stay what they were.
C34_ExportLeavesTarget ==
  (opt.exportJson /\ ~opt.importJson) =>
    /\ ops = <<>> /\ batches = <<>>
    /\ targetDocs = target0
    /\ targetIndexes = index0

\* An export with validateSchema, copyIndexes and incremental has returned
\* with a collection exported.
C34_Witness ==
  /\ opt.exportJson /\ ~opt.importJson /\ ~opt.dryRun
  /\ opt.validateSchema /\ opt.copyIndexes /\ opt.incremental
  /\ Returned
  /\ "exported-json" \in Statuses
  /\ \E c \in Names : target0[c] # {}

\* ------------------------------------------------------------------ C35
\* The run is over: the promise has settled, or the process has exited.
Over == pc \in {"settled", "exited"}

\* C35: when every operation returns, the call is eventually over for good
\* (the promise has settled, the process has exited); and every iteration of
\* the full copy's and of the incremental copy's cursor loop that stays in the
\* loop leaves fewer documents in the cursor, every step of the import's chunk
\* loop that stays in the loop leaves fewer documents of the file to write,
\* and every result pushed moves the for loop to the next name.
C35_Terminates ==
  /\ <>[]Over
  /\ [][/\ (pc \in {"fullLoop", "incLoop"} /\ pc' = pc) =>
             Len(Remaining') < Len(Remaining)
        /\ (pc \in {"importInsert", "importUpsert"} /\ pc' = pc) =>
             /\ impI' > impI
             /\ impI < Len(json)
        /\ Len(summary') > Len(summary) => idx' = idx + 1
        /\ (pc # "settled" /\ idx' # idx) =>
             idx' = idx + 1 /\ idx <= Len(collections)]_vars

\* An import has returned after a chunk loop of more than one step.
C35_Witness ==
  /\ opt.importJson /\ ~opt.dryRun
  /\ Returned
  /\ Len(batches) >= 2
  /\ impI >= Len(json)

\* ------------------------------------------------------------------ C36
\* The probe ran for the current collection and let the transfer go on.
ProbePassed == pc = "dryRun" /\ ops # <<>>
\* The current collection was not processed before in this run.
FirstVisit == \A i \in 1..(idx - 1) : collections[i] # name

\* C36 (as claimed): when the probe has passed, before any transfer step, the
\* target collection holds the documents it held before the probe (for a
\* collection met for the first time in the first run: those it held before
\* the run), and none that carries the probe's marker.
C36_ProbeLeavesNoChange ==
  (ProbePassed /\ runs = 1 /\ FirstVisit) =>
    /\ targetDocs[name] = target0[name]
    /\ \A d \in targetDocs[name] : ~d.test

\* ------------------------------------------------------------------ C37
ImportPositions ==
  {"import", "importDelete", "importInsert", "importUpsert", "importIndexes",
   "importDone"}

\* C37: in an import, every name processed is one the source lists; the data
\* file is looked at, read and written into the target only for a collection
\* whose count was not 0; and (the source being another database) the target
\* collection and indexes of every collection without a matching source
\* document stay what they were, whatever its data file holds.
C37_ImportNeedsSource ==
  opt.importJson =>
    /\ Resolved => \A i \in 1..Len(collections) : collections[i] \in SeqToSet(SrcListing)
    /\ pc \in ImportPositions => total > 0
    /\ (json # <<>> \/ ops # <<>> \/ batches # <<>>) => total > 0
    /\ ~opt.aliased =>
         \A c \in Names :
           Expected(c) = 0 =>
             targetDocs[c] = target0[c] /\ targetIndexes[c] = index0[c]

\* An import of "x", which the source does not list, and of "a", which is
\* empty on the source while its data file holds documents, has returned, and
\* the target held documents of "a".
C37_Witness ==
  /\ opt.importJson /\ ~opt.dryRun
  /\ opt.collections = <<"x", "a">>
  /\ sourceDocs["a"] = <<>>
  /\ files["a"].kind = "ok" /\ Len(files["a"].docs) >= 1
  /\ target0["a"] # {}
  /\ Returned
  /\ Statuses = {"empty"}

\* ------------------------------------------------------------------ C38
\* The second run of an export followed by the import of its files.
RoundTrip == runs = 2 /\ opt.importJson /\ ~opt.incremental
\* The documents the export's predicate matched (the export was incremental
\* exactly when since is set, or its predicate matched every document).
Exported(c) ==
  {d \in SeqToSet(sourceDocs[c]) : opt.since # Null => (d.ts # Null /\ d.ts >= opt.since)}

\* C38 (as claimed): when the import of an export's files has returned, with
\* the source unchanged (another database than the target) and no write
\* failure, every collection the export wrote a file for holds on the target
\* exactly the documents the export matched, and its result is
\* {copied: n, total: n}, n the number of documents of the file.
C38_RoundTrip ==
  (RoundTrip /\ Returned /\ NoWriteFailure /\ ~opt.aliased) =>
    \A i \in 1..Len(summary) :
      LET c == summary[i].name
      IN  files[c].kind = "ok" =>
            /\ targetDocs[c] = Exported(c)
            /\ summary[i].copied = Len(files[c].docs)
            /\ summary[i].total = Len(files[c].docs)

\* ------------------------------------------------------------------ C39
\* None of --all, --collections, --export-json and --import-json is given.
NothingToDo(a) == ~a.all /\ a.collections = <<>> /\ ~a.exportJson /\ ~a.importJson
\* --export-json and --import-json are given together.
Conflict(a) == a.exportJson /\ a.importJson

\* C39: a run of the command line interface with --export-json and
\* --import-json together, or with none of --all, --collections, --export-json
\* and --import-json, never calls copyCollections and never prompts: no client
\* connects, nothing is issued against the target, and the process exits with
\* 1 in the first case and with 0 in the second.
C39_CliRejects ==
  (cli.on /\ (Conflict(cli.argv) \/ NothingToDo(cli.argv))) =>
    /\ pc \in {"cliValidate", "exited"}
    /\ ~EngineStarted
    /\ cli.answer = "none"
    /\ ops = <<>> /\ targetDocs = target0 /\ targetIndexes = index0
    /\ pc = "exited" =>
         cli.exited /\ cli.code = IF Conflict(cli.argv) THEN 1 ELSE 0

\* --all --yes --export-json --import-json has exited with 1.
C39_Witness ==
  /\ cli.on /\ Conflict(cli.argv) /\ cli.argv.all /\ cli.argv.yes
  /\ cli.exited /\ cli.code = 1

====
